---- MODULE Spec2Model ----
(***************************************************************************)
(* bun-import-check: the iterative three-colour traversal that builds the  *)
(* dependency tree and records import cycles (src/index.ts), the cycle     *)
(* enhancer that attaches one import-info entry per edge of a cycle, and   *)
(* the tsconfig-driven resolver for ambiguous specifiers (src/resolver.ts).*)
(***************************************************************************)
EXTENDS Integers, Sequences, FiniteSets, TLC

(***************************************************************************)
(* Bounds of the traversal model.                                          *)
(***************************************************************************)
\* number of distinct absolute file identities that imports can resolve to
NumFiles == 4
\* longest import list getImports returns for one file
MaxImports == 2
\* how many (importer, importee) pairs may have no locatable import line
MaxUnlocatable == 1

Files == 0 .. (NumFiles - 1)

Range(s) == {s[i] : i \in 1 .. Len(s)}

\* all sequences over S of length 0..n
RECURSIVE SeqsUpTo(_, _)
SeqsUpTo(S, n) ==
    IF n = 0 THEN {<<>>}
    ELSE LET shorter == SeqsUpTo(S, n - 1)
         IN  shorter \cup {Append(s, x) : s \in {t \in shorter : Len(t) = n - 1}, x \in S}

VARIABLES
    entryFile,  \* buildDependencyTreeAndDetectCycles(entryFile)
    tree,       \* Map<file, {imports, status}>: a function on the files discovered so far
    cycles,     \* DependencyNode[][]: each cycle a sequence of files (nodes are one per file)
    stack,      \* StackItem[]: records [file, importIndex], importIndex 0-based as in the source
    path,       \* DependencyNode[]: the files of the nodes on the current path
    pc,         \* "start" | "loop" | "done" | "enhanced"
    unlocatable,\* the <<importer, importee>> pairs whose import line cannot be found in the importer's text
    enhanced,   \* EnhancedCycleInfo[]: result of enhanceCyclesWithLineInfo(cycles)
    \* ---- resolver (src/resolver.ts) ----
    resolversByDir,  \* ResolversByDir: directory -> list of the configs whose resolvers are registered there
    resolutionCache, \* per resolver <<dir, index>>: specifier -> cached path (<<>> when absent)
    fileSystem,      \* the paths that exist (files the default resolver can find)
    inputs,          \* the specifiers and importing files the calls are made with
    call,            \* the arguments of the resolveAmbiguous call in progress
    calls,           \* number of resolveAmbiguous calls started, and the number allowed
    projectDir,      \* resolveAmbiguous: let projectDir
    prevProjectDir,  \* resolveAmbiguous: let prevProjectDir (<<>> for undefined)
    resolverIndex,   \* position of the inner for loop in resolversByDir[projectDir], 1-based
    consulted,       \* the resolvers called so far in this call: [dir, index, kind, tried]
    returned,        \* what resolveAmbiguous returned: [path, params], path <<>> for undefined
    rpc,             \* "idle" | "walk" | "returned"
    \* ---- hasImport (src/import.ts) ----
    decls,           \* the declarations the line is written from: [form, specifier]
    lineText,        \* hasImport(line, idOrPath): the text of the line, as tokens
    lineId,          \* hasImport(line, idOrPath): the specifier looked for
    lineResult,      \* [returned, value]: whether hasImport returned, and what
    \* ---- the process (src/cli.ts) and what it reads ----
    sources,         \* the files on disk: path -> [readable, scannable, specifiers]
    links,           \* the symbolic links on disk: path -> the real path
    configFiles,     \* the resolving configs on disk: what getResolvers() finds
    resolversLoaded, \* index.ts line 52: whether the module-level resolversByDir is set
    ppc,             \* "idle" | "args" | "run" | "watching" | "exited"
    argv,            \* parseArgs: [help, watch, positionals], positionals a count
    exitStatus,      \* the status the process exited with, -1 while it runs
    history,         \* the results of the traversals finished before a restart
    \* ---- findWorkspaceRoot (src/resolver.ts) ----
    manifests,       \* the package.json of each directory: "none" | "package" | "workspaces"
    workspaceRootCache, \* resolver.ts line 170: path -> the root returned for it
    rootCalls,       \* the findWorkspaceRoot calls made so far: [start, result]
    console          \* what was written by console.error / console.warn, as a set

tvars == <<entryFile, tree, cycles, stack, path, pc, unlocatable, enhanced>>
rvars == <<resolversByDir, resolutionCache, fileSystem, inputs, call, calls, projectDir,
           prevProjectDir, resolverIndex, consulted, returned, rpc>>
hvars == <<decls, lineText, lineId, lineResult>>
pvars == <<sources, links, configFiles, resolversLoaded, ppc, argv, exitStatus, history>>
wvars == <<manifests, workspaceRootCache, rootCalls>>
vars == <<tvars, rvars, hvars, pvars, wvars, console>>

(***************************************************************************)
(* getImports(file): the filtered list of resolved import targets of the   *)
(* file, in the order the scanner returns them.  The file system is the    *)
(* input: any list of at most MaxImports files, duplicates and self        *)
(* imports included.  A file that cannot be read or scanned gives [].      *)
(***************************************************************************)
getImports(file) == SeqsUpTo(Files, MaxImports)

\* tree.get(file)!.status, Unvisited for a file not in the tree
StatusOf(t, file) == IF file \in DOMAIN t THEN t[file].status ELSE "Unvisited"

\* every node that is not on the path is pushed, a finished one too
NeedsPushUnlessVisiting(t, file) ==
    IF file \notin DOMAIN t THEN TRUE ELSE t[file].status # "Visiting"

\* line 150: !importedNode || importedNode.status === NodeStatus.Unvisited
NeedsPush(t, file) == IF file \notin DOMAIN t THEN TRUE ELSE t[file].status = "Unvisited"

\* a two-colour traversal: every node already in the tree counts as on the path
IsVisitingOrVisited(t, file) == IF file \in DOMAIN t THEN t[file].status # "Unvisited" ELSE FALSE

\* line 152: importedNode.status === NodeStatus.Visiting
IsVisiting(t, file) == IF file \in DOMAIN t THEN t[file].status = "Visiting" ELSE FALSE

\* path.findIndex((n) => n.file === file): 0-based index of the first match, -1 if none
findIndex(p, file) ==
    IF \E i \in 1 .. Len(p) : p[i] = file
    THEN (CHOOSE i \in 1 .. Len(p) : p[i] = file /\ \A j \in 1 .. (i - 1) : p[j] # file) - 1
    ELSE -1

\* Array.prototype.slice(start) for start >= -1 (slice(-1) is the last element)
slice(p, start) ==
    IF start >= 0 THEN SubSeq(p, start + 1, Len(p))
    ELSE SubSeq(p, Len(p), Len(p))

\* the whole path is reported, not the part from the re-entered file on
CycleOfWholePath(p, file) == Append(p, file)

\* lines 153-154: path.slice(cycleStart).concat(importedNode)
CycleOf(p, file) == Append(slice(p, findIndex(p, file)), file)

\* pushToStack(file), lines 118-132, applied to tree t, stack s and path p;
\* imps is what getImports(file) returns when the file is not yet in the tree
pushToStack(t, s, p, file, imps) ==
    LET t1 == IF file \in DOMAIN t THEN t
              ELSE t @@ (file :> [imports |-> imps, status |-> "Unvisited"])
    IN  [tree  |-> [t1 EXCEPT ![file].status = "Visiting"],
         stack |-> Append(s, [file |-> file, importIndex |-> 0]),
         path  |-> Append(p, file)]

\* the node is popped but keeps its Visiting status
markVisitedForgotten(t, file) == t

\* line 141: node.status = NodeStatus.Visited
markVisited(t, file) == [t EXCEPT ![file].status = "Visited"]

\* the traversal before buildDependencyTreeAndDetectCycles(entryFile) runs
InitTraversal ==
    /\ entryFile = 0
    /\ tree = <<>>
    /\ cycles = <<>>
    /\ stack = <<>>
    /\ path = <<>>
    /\ pc = "start"
    /\ unlocatable = {}
    /\ enhanced = <<>>

\* no resolver registered, no resolveAmbiguous call allowed
NoResolution ==
    /\ resolversByDir = <<>>
    /\ resolutionCache = <<>>
    /\ fileSystem = {}
    /\ inputs = <<>>
    /\ call = <<>>
    /\ calls = [started |-> 0, allowed |-> 0]
    /\ projectDir = <<>>
    /\ prevProjectDir = <<>>
    /\ resolverIndex = 1
    /\ consulted = <<>>
    /\ returned = <<>>
    /\ rpc = "idle"

\* no line is given to hasImport
NoLine ==
    /\ decls = <<>>
    /\ lineText = <<>>
    /\ lineId = <<>>
    /\ lineResult = [returned |-> FALSE, value |-> FALSE]

\* no process is run
NoProcess ==
    /\ sources = <<>>
    /\ links = <<>>
    /\ configFiles = <<>>
    /\ resolversLoaded = FALSE
    /\ ppc = "idle"
    /\ argv = [help |-> FALSE, watch |-> FALSE, positionals |-> 0]
    /\ exitStatus = -1
    /\ history = <<>>
    /\ console = {}

\* findWorkspaceRoot has not been called
NoRootSearch ==
    /\ manifests = <<>>
    /\ workspaceRootCache = <<>>
    /\ rootCalls = <<>>

Init == InitTraversal /\ NoResolution /\ NoLine /\ NoProcess /\ NoRootSearch

\* line 134: await pushToStack(entryFile)
Start ==
    /\ pc = "start"
    /\ \E imps \in getImports(entryFile) :
         LET r == pushToStack(tree, stack, path, entryFile, imps)
         IN  /\ tree' = r.tree
             /\ stack' = r.stack
             /\ path' = r.path
    /\ pc' = "loop"
    /\ UNCHANGED <<entryFile, cycles, unlocatable, enhanced>>
    /\ UNCHANGED <<rvars, hvars, wvars, pvars, console>>

Top == stack[Len(stack)]
TopNode == tree[Top.file]
\* line 145: node.imports[current.importIndex]
NextImport == TopNode.imports[Top.importIndex + 1]
\* line 146: current.importIndex++
Advanced == [stack EXCEPT ![Len(stack)].importIndex = @ + 1]

InLoop == pc = "loop" /\ Len(stack) > 0

\* lines 140-143: every import of the top node is processed
PopFrame ==
    /\ InLoop
    /\ Top.importIndex >= Len(TopNode.imports)
    /\ tree' = markVisited(tree, Top.file)
    /\ stack' = SubSeq(stack, 1, Len(stack) - 1)
    /\ path' = SubSeq(path, 1, Len(path) - 1)
    /\ UNCHANGED <<entryFile, cycles, pc, unlocatable, enhanced>>
    /\ UNCHANGED <<rvars, hvars, wvars, pvars, console>>

\* lines 145-151: the next import's target is unknown or Unvisited
PushImport ==
    /\ InLoop
    /\ Top.importIndex < Len(TopNode.imports)
    /\ NeedsPush(tree, NextImport)
    /\ \E imps \in getImports(NextImport) :
         LET r == pushToStack(tree, Advanced, path, NextImport, imps)
         IN  /\ tree' = r.tree
             /\ stack' = r.stack
             /\ path' = r.path
    /\ UNCHANGED <<entryFile, cycles, pc, unlocatable, enhanced>>
    /\ UNCHANGED <<rvars, hvars, wvars, pvars, console>>

\* lines 145-155: the next import's target is Visiting
RecordCycle ==
    /\ InLoop
    /\ Top.importIndex < Len(TopNode.imports)
    /\ ~NeedsPush(tree, NextImport)
    /\ IsVisiting(tree, NextImport)
    /\ cycles' = Append(cycles, CycleOf(path, NextImport))
    /\ stack' = Advanced
    /\ UNCHANGED <<entryFile, tree, path, pc, unlocatable, enhanced>>
    /\ UNCHANGED <<rvars, hvars, wvars, pvars, console>>

\* lines 145-156: the next import's target is Visited, nothing to do
SkipVisited ==
    /\ InLoop
    /\ Top.importIndex < Len(TopNode.imports)
    /\ ~NeedsPush(tree, NextImport)
    /\ ~IsVisiting(tree, NextImport)
    /\ stack' = Advanced
    /\ UNCHANGED <<entryFile, tree, cycles, path, pc, unlocatable, enhanced>>
    /\ UNCHANGED <<rvars, hvars, wvars, pvars, console>>

\* lines 136, 159: the stack is empty, the function returns {tree, cycles}
Return ==
    /\ pc = "loop"
    /\ Len(stack) = 0
    /\ pc' = "done"
    /\ UNCHANGED <<entryFile, tree, cycles, stack, path, unlocatable, enhanced>>
    /\ UNCHANGED <<rvars, hvars, wvars, pvars, console>>

(***************************************************************************)
(* enhanceCyclesWithLineInfo, src/index.ts lines 177-248.  An              *)
(* EnhancedImportInfo is kept as [importer, importee]: the specifier, the  *)
(* line number and the context lines are the text of the first line of the *)
(* importer that hasImport() accepts for the first edge to the importee.   *)
(* Whether such a line exists (and whether the importer can be read at     *)
(* all) is the file system's answer, held in unlocatable.                  *)
(***************************************************************************)
\* an optional EnhancedImportInfo is a sequence of none or one
undefined == <<>>

\* line 190: cycle[(i + 1) % cycle.length], i 0-based
importeeOf(cycle, i) == cycle[((i + 1) % Len(cycle)) + 1]

\* the closing pair is not skipped
sameNodeNever(importer, importee) == FALSE

\* line 191: importer === importee (nodes are one object per file)
sameNode(importer, importee) == importer = importee

\* lines 206-248
findImportLineInfo(importer, importee, t, U) ==
    IF <<importer, importee>> \in U THEN undefined
    ELSE IF ~(\E i \in 1 .. Len(t[importer].imports) : t[importer].imports[i] = importee)
         THEN undefined
    ELSE <<[importer |-> importer, importee |-> importee]>>

\* lines 188-198: the importInfo list of one cycle
RECURSIVE importInfoFrom(_, _, _, _)
importInfoFrom(cycle, i, t, U) ==
    IF i >= Len(cycle) THEN <<>>
    ELSE LET importer == cycle[i + 1]
             importee == importeeOf(cycle, i)
             rest == importInfoFrom(cycle, i + 1, t, U)
         IN  IF sameNode(importer, importee) THEN rest
             ELSE LET importInfo == findImportLineInfo(importer, importee, t, U)
                  IN  IF importInfo # undefined THEN importInfo \o rest ELSE rest

\* lines 180-203
enhanceCyclesWithLineInfo(cs, t, U) ==
    [c \in 1 .. Len(cs) |-> [cycle |-> cs[c], importInfo |-> importInfoFrom(cs[c], 0, t, U)]]

\* lines 195-197: console.error('missing import info for', {importer, importee})
\* for every pair findImportLineInfo is asked about and finds no line for
missingImportInfo(cs, t, U) ==
    UNION {{[kind |-> "missing import info", importer |-> cs[c][i + 1],
             importee |-> importeeOf(cs[c], i)] :
                i \in {j \in 0 .. (Len(cs[c]) - 1) :
                          /\ ~sameNode(cs[c][j + 1], importeeOf(cs[c], j))
                          /\ findImportLineInfo(cs[c][j + 1], importeeOf(cs[c], j), t, U)
                                 = undefined}} :
           c \in 1 .. Len(cs)}

\* the pairs findImportLineInfo is asked about
ConsultedPairs(cs) ==
    UNION {{<<cs[c][i + 1], importeeOf(cs[c], i)>> : i \in 0 .. (Len(cs[c]) - 1)} : c \in 1 .. Len(cs)}

\* cli.ts line 131: const enhanced = enhanceCyclesWithLineInfo(cycles)
Enhance ==
    /\ pc = "done"
    /\ Len(cycles) > 0
    /\ \E U \in SUBSET ConsultedPairs(cycles) :
         /\ Cardinality(U) <= MaxUnlocatable
         /\ unlocatable' = U
         /\ enhanced' = enhanceCyclesWithLineInfo(cycles, tree, U)
         /\ console' = console \cup missingImportInfo(cycles, tree, U)
    /\ pc' = "enhanced"
    /\ UNCHANGED <<entryFile, tree, cycles, stack, path>>
    /\ UNCHANGED <<rvars, hvars, wvars, pvars>>

Next == Start \/ PopFrame \/ PushImport \/ RecordCycle \/ SkipVisited \/ Return \/ Enhance

Spec == Init /\ [][Next]_vars
(***************************************************************************)
(* The import graph the traversal discovered: an edge a -> b for every     *)
(* entry b of a's import list.  These are read off the tree, not off the   *)
(* traversal's colouring.                                                  *)
(***************************************************************************)
Targets(a) == IF a \in DOMAIN tree THEN Range(tree[a].imports) ELSE {}
Edge(a, b) == b \in Targets(a)

RECURSIVE ReachFrom(_)
ReachFrom(S) ==
    LET more == S \cup UNION {Targets(a) : a \in S}
    IN  IF more = S THEN S ELSE ReachFrom(more)

\* the files reachable from f by one or more imports
Descendants(f) == ReachFrom(Targets(f))

HasCycle == \E f \in ReachFrom({entryFile}) : f \in Descendants(f)

\* sequences of distinct files of length 1..NumFiles
DistinctSeqs ==
    {s \in SeqsUpTo(Files, NumFiles) :
        Len(s) >= 1 /\ \A i, j \in 1 .. Len(s) : i # j => s[i] # s[j]}

\* s lists the files of an elementary cycle, each importing the next, the last the first
IsElementaryCycle(s) == \A i \in 1 .. Len(s) : Edge(s[i], s[(i % Len(s)) + 1])

ElementaryCycles ==
    {s \in DistinctSeqs : Range(s) \subseteq ReachFrom({entryFile}) /\ IsElementaryCycle(s)}

Front(s) == SubSeq(s, 1, Len(s) - 1)

\* how many entries of the import list of file a name b
Occurrences(a, b) == Cardinality({i \in 1 .. Len(tree[a].imports) : tree[a].imports[i] = b})

(***************************************************************************)
(* C1: when the traversal returns and no directed cycle is reachable from  *)
(* the entry, the cycles list is empty and the tree's nodes are exactly    *)
(* the files reachable from the entry.                                     *)
(***************************************************************************)
C1_AcyclicNoCyclesAllReachable ==
    (pc = "done" /\ ~HasCycle) =>
        /\ cycles = <<>>
        /\ DOMAIN tree = ReachFrom({entryFile})

\* an acyclic graph of three files or more with a shared dependency has been traversed
C1_Witness ==
    /\ pc = "done"
    /\ ~HasCycle
    /\ Cardinality(DOMAIN tree) >= 3
    /\ \E a, b \in DOMAIN tree, d \in DOMAIN tree : a # b /\ Edge(a, d) /\ Edge(b, d)
    /\ cycles = <<>>
(***************************************************************************)
(* C2: a step appends to cycles only when the next import of the top frame *)
(* targets a node whose status is Visiting, and then appends exactly one   *)
(* cycle; a step taken when that target is Visited leaves cycles alone;    *)
(* and a traversed diamond (entry -> B, entry -> C in either order,        *)
(* B -> D, C -> D, nothing else) ends with no cycle.                       *)
(***************************************************************************)
HasNextImport ==
    /\ pc = "loop"
    /\ Len(stack) > 0
    /\ stack[Len(stack)].importIndex < Len(tree[stack[Len(stack)].file].imports)

NextTargetStatus ==
    LET top == stack[Len(stack)]
        target == tree[top.file].imports[top.importIndex + 1]
    IN  IF target \in DOMAIN tree THEN tree[target].status ELSE "Unvisited"

IsDiamond ==
    \E B, C, D \in Files :
        /\ Cardinality({entryFile, B, C, D}) = 4
        /\ DOMAIN tree = {entryFile, B, C, D}
        /\ tree[entryFile].imports = <<B, C>>
        /\ tree[B].imports = <<D>>
        /\ tree[C].imports = <<D>>
        /\ tree[D].imports = <<>>

C2_CycleOnlyWhenVisiting ==
    /\ [][(cycles' # cycles) =>
            /\ HasNextImport
            /\ NextTargetStatus = "Visiting"
            /\ Len(cycles') = Len(cycles) + 1
            /\ SubSeq(cycles', 1, Len(cycles)) = cycles]_vars
    /\ [][(HasNextImport /\ NextTargetStatus = "Visited") => cycles' = cycles]_vars
    /\ []((pc = "done" /\ IsDiamond) => cycles = <<>>)

\* a diamond has been traversed to the end
C2_Witness == pc = "done" /\ IsDiamond /\ \A f \in DOMAIN tree : tree[f].status = "Visited"
(***************************************************************************)
(* C3: when the traversal returns, every elementary cycle among the files  *)
(* reachable from the entry has a recorded cycle with exactly its files.   *)
(***************************************************************************)
C3_AllElementaryCyclesReported ==
    pc = "done" =>
        \A s \in ElementaryCycles :
            \E i \in 1 .. Len(cycles) : Range(cycles[i]) = Range(s)

(***************************************************************************)
(* C4: the graph has one elementary cycle when all its elementary cycles   *)
(* are rotations of one another.                                           *)
(***************************************************************************)
Min(S) == CHOOSE x \in S : \A y \in S : x <= y

OneSimpleCycle == Cardinality({s \in ElementaryCycles : s[1] = Min(Range(s))}) = 1

\* c is a recorded cycle of the graph: files following import edges, the
\* first one repeated at the end to close the loop
ClosedRotation(c) ==
    /\ Len(c) >= 2
    /\ c[Len(c)] = c[1]
    /\ Front(c) \in ElementaryCycles

\* C4 as stated, for cycles of two files or more: with one simple cycle
\* reachable, exactly one cycle is recorded, and it lists the files of that
\* cycle following the import edges.
C4_ExactlyOneCycleRecorded ==
    (pc = "done" /\ OneSimpleCycle /\ \A s \in ElementaryCycles : Len(s) >= 2) =>
        /\ Len(cycles) = 1
        /\ ClosedRotation(cycles[1])

\* C4 as amended: with one simple cycle reachable, a cycle is recorded once
\* for every entry of the closing file's import list that names the file
\* where the traversal entered the cycle (once when that import is listed
\* once); every recorded cycle lists the files of the cycle following the
\* import edges, and all recorded cycles are the same list.
C4_OneCyclePerClosingImport ==
    (pc = "done" /\ OneSimpleCycle) =>
        /\ Len(cycles) >= 1
        /\ \A i \in 1 .. Len(cycles) : ClosedRotation(cycles[i]) /\ cycles[i] = cycles[1]
        /\ Len(cycles) = Occurrences(cycles[1][Len(cycles[1]) - 1], cycles[1][1])

\* a three-file cycle entered from a fourth file has been recorded once
C4_Witness ==
    /\ pc = "done"
    /\ OneSimpleCycle
    /\ Len(cycles) = 1
    /\ Len(cycles[1]) = 4
    /\ entryFile \notin Range(cycles[1])
(***************************************************************************)
(* C5: after enhancement, every recorded cycle over k = 2 or 3 distinct    *)
(* files whose k import lines were all found has exactly k import-info     *)
(* entries: entry j is the edge from the j-th file of the cycle to the     *)
(* next one, and nothing follows the entry of the closing edge.            *)
(***************************************************************************)
DistinctFiles(c) == Cardinality(Range(c))

AllLocated(c) ==
    \A j \in 1 .. (Len(c) - 1) : <<c[j], c[j + 1]>> \notin unlocatable

C5_OneEntryPerEdge ==
    pc = "enhanced" =>
        \A i \in 1 .. Len(cycles) :
            LET c == cycles[i]
                k == DistinctFiles(c)
            IN  (k \in {2, 3} /\ AllLocated(c)) =>
                    /\ Len(enhanced[i].importInfo) = k
                    /\ \A j \in 1 .. k :
                          enhanced[i].importInfo[j] = [importer |-> c[j], importee |-> c[j + 1]]

\* a cycle over three files, its first file also importing itself, has been
\* enhanced with all lines found
C5_Witness ==
    /\ pc = "enhanced"
    /\ \E i \in 1 .. Len(cycles) :
          /\ DistinctFiles(cycles[i]) = 3
          /\ AllLocated(cycles[i])
          /\ Edge(cycles[i][1], cycles[i][1])
          /\ <<cycles[i][1], cycles[i][1]>> \notin unlocatable
          /\ Len(enhanced[i].importInfo) = 3
(***************************************************************************)
(* The resolver for ambiguous specifiers, src/resolver.ts.                 *)
(*                                                                         *)
(* Strings (specifiers, alias patterns, paths) are sequences of            *)
(* one-character strings, with "node_modules" kept as one element.  The    *)
(* file system is the set of paths that exist; it does not change while    *)
(* specifiers are resolved.  The default                                   *)
(* resolver (Bun's resolveSync) is modelled by its conventions: an         *)
(* absolute path resolves to itself when it exists, a bare specifier to    *)
(* <dir>/node_modules/<specifier> in the nearest ancestor directory that   *)
(* has it.  Extension probing is left out: a resolved path is the path     *)
(* probed.                                                                 *)
(***************************************************************************)
Last(s) == s[Len(s)]

\* String.prototype.indexOf(ch): 0-based, -1 when absent
indexOf(str, ch) ==
    IF \E i \in 1 .. Len(str) : str[i] = ch
    THEN (CHOOSE i \in 1 .. Len(str) : str[i] = ch /\ \A j \in 1 .. (i - 1) : str[j] # ch) - 1
    ELSE -1

startsWith(str, prefix) ==
    IF Len(prefix) > Len(str) THEN FALSE ELSE SubSeq(str, 1, Len(prefix)) = prefix

endsWith(str, suffix) ==
    IF Len(suffix) > Len(str) THEN FALSE
    ELSE SubSeq(str, Len(str) - Len(suffix) + 1, Len(str)) = suffix

\* String.prototype.replace(search, replacement) with a string search: the first occurrence
replace(str, search, replacement) ==
    LET hits == {i \in 1 .. (Len(str) - Len(search) + 1) :
                    SubSeq(str, i, i + Len(search) - 1) = search}
    IN  IF hits = {} THEN str
        ELSE LET i == CHOOSE h \in hits : \A g \in hits : h <= g
             IN  SubSeq(str, 1, i - 1) \o replacement \o SubSeq(str, i + Len(search), Len(str))

\* str.replace(/\/\*$/, '')
stripSlashStar(str) ==
    IF endsWith(str, <<"/", "*">>) THEN SubSeq(str, 1, Len(str) - 2) ELSE str

\* Glob.match for a pattern of literal characters and '*', where '*' matches
\* any run of characters other than '/'
RECURSIVE globMatch(_, _)
globMatch(pattern, str) ==
    IF pattern = <<>> THEN str = <<>>
    ELSE IF Head(pattern) = "*"
         THEN IF globMatch(Tail(pattern), str) THEN TRUE
              ELSE IF str = <<>> THEN FALSE
              ELSE IF Head(str) = "/" THEN FALSE
              ELSE globMatch(pattern, Tail(str))
    ELSE IF str = <<>> THEN FALSE
    ELSE IF Head(str) # Head(pattern) THEN FALSE
    ELSE globMatch(Tail(pattern), Tail(str))

isAbsolute(str) == IF str = <<>> THEN FALSE ELSE str[1] = "/"

\* path.dirname of an absolute directory: dirname("/") is "/"
dirname(dir) ==
    LET slashes == {i \in 1 .. Len(dir) : dir[i] = "/"}
        k == CHOOSE i \in slashes : \A j \in slashes : j <= i
    IN  IF k = 1 THEN <<"/">> ELSE SubSeq(dir, 1, k - 1)

\* path.join(dir, rel) and path.resolve(dir, rel) for an absolute dir and a
\* relative rel without "." or ".." segments
join(dir, rel) == IF dir = <<"/">> THEN dir \o rel ELSE dir \o <<"/">> \o rel

\* path.relative(from, to) for to inside from; <<"..">> stands for any path leaving from
relative(from, to) ==
    IF from = to THEN <<>>
    ELSE IF from = <<"/">> THEN Tail(to)
    ELSE IF startsWith(to, from \o <<"/">>) THEN SubSeq(to, Len(from) + 2, Len(to))
    ELSE <<"..">>

\* line 136, as a Resolution that also says which paths were probed and which
\* alias patterns were tried
NO_MATCH == [path |-> <<>>, matched |-> FALSE, probed |-> {}, tried |-> <<>>]

\* the default resolver answers with the real path of what it finds
realpath(p) == IF p \in DOMAIN links THEN links[p] ELSE p

\* node_modules lookup of a bare specifier from dir upward; E is the set of existing paths
RECURSIVE packageLookup(_, _, _)
packageLookup(id, dir, E) ==
    LET candidate == join(join(dir, <<"node_modules">>), id)
    IN  IF candidate \in E
        THEN [path |-> realpath(candidate), matched |-> TRUE, probed |-> {candidate},
              tried |-> <<>>]
        ELSE IF dirname(dir) = dir THEN [NO_MATCH EXCEPT !.probed = {candidate}]
        ELSE [packageLookup(id, dirname(dir), E) EXCEPT !.probed = @ \cup {candidate}]

\* lines 284-292: bunResolve(id, parent); the importing file's directory is
\* what resolveSync gets
bunResolve(id, importer, E) ==
    IF isAbsolute(id)
    THEN IF id \in E
         THEN [path |-> id, matched |-> TRUE, probed |-> {id}, tried |-> <<>>]
         ELSE [NO_MATCH EXCEPT !.probed = {id}]
    ELSE packageLookup(id, importer.dir, E)

\* lines 111-113
getPrefixLength(pattern) == indexOf(pattern, "*")

\* Array.prototype.sort is stable: x goes behind every entry that does not sort after it
RECURSIVE insertSorted(_, _)
insertSorted(x, sorted) ==
    IF sorted = <<>> THEN <<x>>
    ELSE IF getPrefixLength(x) - getPrefixLength(Head(sorted)) > 0
         THEN <<x>> \o sorted
    ELSE <<Head(sorted)>> \o insertSorted(x, Tail(sorted))

\* lines 115-119: the keys of paths (in declaration order) sorted by (b, a) => prefix(b) - prefix(a)
RECURSIVE sortByPrefixLength(_)
sortByPrefixLength(patterns) ==
    IF patterns = <<>> THEN <<>>
    ELSE insertSorted(Last(patterns), sortByPrefixLength(Front(patterns)))

PatternsOf(paths) == [i \in 1 .. Len(paths) |-> paths[i].pattern]
TargetsOf(paths, pattern) == (CHOOSE i \in 1 .. Len(paths) : paths[i].pattern = pattern)

\* lines 122-134
resolvePathMappings(paths, base) ==
    LET sortedPatterns == sortByPrefixLength(PatternsOf(paths))
    IN  [i \in 1 .. Len(sortedPatterns) |->
            LET relativePaths == paths[TargetsOf(paths, sortedPatterns[i])].paths
            IN  [pattern |-> sortedPatterns[i],
                 paths |-> [j \in 1 .. Len(relativePaths) |-> join(base, relativePaths[j])]]]

\* lines 343-353: the candidate for one target of a matching mapping
mappedId(mapping, target, id) ==
    IF endsWith(target, <<"/", "*">>)
    THEN replace(id, stripSlashStar(mapping.pattern), stripSlashStar(target))
    ELSE target

\* lines 355-359: if (matched) return resolved, else go on with the rest
returnIfMatched(resolved, rest) ==
    IF resolved.matched THEN resolved
    ELSE [rest EXCEPT !.probed = @ \cup resolved.probed, !.tried = resolved.tried \o @]

\* lines 342-360: the targets of one mapping from index j on
RECURSIVE tryPaths(_, _, _, _, _)
tryPaths(mapping, j, id, importer, E) ==
    IF j > Len(mapping.paths) THEN [NO_MATCH EXCEPT !.tried = <<mapping.pattern>>]
    ELSE returnIfMatched(
             [bunResolve(mappedId(mapping, mapping.paths[j], id), importer, E)
                  EXCEPT !.tried = <<mapping.pattern>>],
             [tryPaths(mapping, j + 1, id, importer, E) EXCEPT !.tried = <<>>])

\* lines 336-363: the mappings from index i on; tried lists the patterns whose
\* targets were tried, in order
RECURSIVE resolveWithPaths(_, _, _, _, _)
resolveWithPaths(pathMappings, i, id, importer, E) ==
    IF i > Len(pathMappings) THEN NO_MATCH
    ELSE IF ~globMatch(pathMappings[i].pattern, id)
         THEN resolveWithPaths(pathMappings, i + 1, id, importer, E)
    ELSE returnIfMatched(tryPaths(pathMappings[i], 1, id, importer, E),
                         resolveWithPaths(pathMappings, i + 1, id, importer, E))

\* lines 326-328
resolveWithBaseUrl(baseUrl, id, importer, E) == bunResolve(join(baseUrl, id), importer, E)

(***************************************************************************)
(* A config is [include, baseUrl, hasPaths, paths].  include is "all" (the *)
(* default, every file below the config) or the name of one subdirectory   *)
(* of the config's directory.  baseUrl says whether                        *)
(* compilerOptions.baseUrl is set (then it is the config's directory).     *)
(* paths is the alias map in declaration order, each entry                 *)
(* [pattern, paths].                                                       *)
(***************************************************************************)
BaseOf(configDir) == configDir

\* lines 365-373: the alias result, or the baseUrl result when no alias matched
pathsThenBaseUrl(viaPaths, viaBase) ==
    IF viaPaths.matched THEN viaPaths
    ELSE [viaBase EXCEPT !.probed = @ \cup viaPaths.probed, !.tried = viaPaths.tried]

\* lines 330-377
resolveIdOrPath(config, configDir, id, importer, E) ==
    IF config.hasPaths
    THEN IF config.baseUrl
         THEN pathsThenBaseUrl(
                  resolveWithPaths(resolvePathMappings(config.paths, BaseOf(configDir)),
                                   1, id, importer, E),
                  resolveWithBaseUrl(BaseOf(configDir), id, importer, E))
         ELSE resolveWithPaths(resolvePathMappings(config.paths, BaseOf(configDir)),
                               1, id, importer, E)
    ELSE resolveWithBaseUrl(BaseOf(configDir), id, importer, E)

\* lines 443-469: getIncluder(config.include, config.exclude, outDir) applied
\* to the importing file's path relative to the config's directory
isIncludedRelative(config, configDir, importer) ==
    LET rel == relative(configDir, importer.dir)
    IN  IF config.include = "all" THEN TRUE
        ELSE IF rel = <<>> THEN FALSE
        ELSE rel = <<config.include>> \/ startsWith(rel, <<config.include, "/">>)

\* lines 415-435: the path the configured resolution or else the default
\* lookup found, and the cache afterwards
resolvePathNoFallback(cache, id, first, fallback) ==
    IF first.matched /\ first.path # <<>>
    THEN [path |-> first.path, cache |-> [cache EXCEPT ![id] = first.path],
          probed |-> first.probed, tried |-> first.tried]
    ELSE [path |-> <<>>, cache |-> cache, probed |-> first.probed \cup fallback.probed,
          tried |-> first.tried]

resolvePath(cache, id, first, fallback) ==
    IF first.matched /\ first.path # <<>>
    THEN [path |-> first.path, cache |-> [cache EXCEPT ![id] = first.path],
          probed |-> first.probed, tried |-> first.tried]
    ELSE [path |-> fallback.path,
          cache |-> IF fallback.matched /\ fallback.path # <<>>
                    THEN [cache EXCEPT ![id] = fallback.path]
                    ELSE cache,
          probed |-> first.probed \cup fallback.probed, tried |-> first.tried]

\* line 436: [path && params ? path + params : path, true]
withParams(found, params) ==
    [path |-> found.path, params |-> IF found.path # <<>> THEN params ELSE FALSE,
     matched |-> TRUE, cache |-> found.cache, probed |-> found.probed, tried |-> found.tried]

\* lines 394-436: the resolver createResolver returns, called with the
\* specifier [id, params] and the importing file; cache is its resolutionCache
Resolver(config, configDir, cache, idOrPath, importer, E) ==
    IF ~importer.supported
    THEN [path |-> <<>>, params |-> FALSE, matched |-> FALSE, cache |-> cache,
          probed |-> {}, tried |-> <<>>]
    ELSE IF ~isIncludedRelative(config, configDir, importer)
    THEN [path |-> <<>>, params |-> FALSE, matched |-> FALSE, cache |-> cache,
          probed |-> {}, tried |-> <<>>]
    ELSE IF cache[idOrPath.id] # <<>>
    THEN [path |-> cache[idOrPath.id], params |-> idOrPath.params, matched |-> TRUE,
          cache |-> cache, probed |-> {}, tried |-> <<>>]
    ELSE withParams(resolvePath(cache, idOrPath.id,
                                resolveIdOrPath(config, configDir, idOrPath.id, importer, E),
                                bunResolve(idOrPath.id, importer, E)),
                    idOrPath.params)
(***************************************************************************)
(* resolveAmbiguous, lines 254-280, one step per resolver called and per   *)
(* directory left.                                                         *)
(***************************************************************************)
\* bounds of the resolver model
MaxResolversPerDir == 2
MaxResolvers == 3
MaxCalls == 1
MaxRepeatedCalls == 2
MaxRepeatedResolvers == 2
MaxPatterns == 3

Root == <<"/">>
DirP == <<"/", "p">>
DirN == <<"/", "p", "/", "n">>
DirQ == <<"/", "q">>
Dirs == {Root, DirP, DirN, DirQ}

IdXY == <<"x", "/", "y">>
IdXYZ == <<"x", "/", "y", "z">>
AllIds == {IdXY, IdXYZ}

undefinedPath == [path |-> <<>>, params |-> FALSE]

\* resolversByDir[projectDir], <<>> when no config lives there
ResolversAt(dir) == IF dir \in DOMAIN resolversByDir THEN resolversByDir[dir] ELSE <<>>

ResolverKeys(registry) ==
    {k \in (DOMAIN registry) \X (1 .. MaxResolversPerDir) : k[2] <= Len(registry[k[1]])}

\* line 393: every resolver starts with an empty resolutionCache
EmptyCache == [id \in AllIds |-> <<>>]
EmptyCaches(registry) == [k \in ResolverKeys(registry) |-> EmptyCache]

\* line 260: let projectDir = dirname(importerPath)
startDirRoot(importerPath) == Root

startDir(importerPath) == importerPath.dir

\* line 263: projectDir && projectDir !== prevProjectDir
LoopContinues == projectDir # <<>> /\ projectDir # prevProjectDir

CallResolveAmbiguous ==
    /\ rpc \in {"idle", "returned"}
    /\ calls.started < calls.allowed
    /\ \E id \in inputs.ids, params \in inputs.params, importer \in inputs.importers :
         call' = [idOrPath |-> [id |-> id, params |-> params], importerPath |-> importer]
    /\ calls' = [calls EXCEPT !.started = @ + 1]
    /\ projectDir' = startDir(call'.importerPath)
    /\ prevProjectDir' = <<>>
    /\ resolverIndex' = 1
    /\ consulted' = <<>>
    /\ returned' = undefinedPath
    /\ rpc' = "walk"
    /\ UNCHANGED <<resolversByDir, resolutionCache, fileSystem, inputs>>
    /\ UNCHANGED <<tvars, hvars, wvars, pvars, console>>

\* what a resolver's answer is to the loop: a path, no path but applicable, or NO_MATCH
KindOf(r) == IF r.path # <<>> THEN "resolved" ELSE IF r.matched THEN "matched" ELSE "declined"

\* lines 268-275: return resolved, break outer, or go on with the next resolver
afterAnswerFallThrough(kind) == IF kind = "resolved" THEN "returned" ELSE "walk"

afterAnswer(kind) == IF kind = "declined" THEN "walk" ELSE "returned"

\* lines 266-275: the resolver at key has answered r
ResolverAnswers(kind, key, r) ==
    /\ kind = KindOf(r)
    /\ resolutionCache' = [resolutionCache EXCEPT ![key] = r.cache]
    /\ consulted' = Append(consulted, [dir |-> key[1], index |-> key[2], kind |-> kind,
                                       tried |-> r.tried])
    /\ returned' = IF kind = "resolved" THEN [path |-> r.path, params |-> r.params] ELSE returned
    /\ rpc' = afterAnswer(kind)
    /\ resolverIndex' = IF afterAnswer(kind) = "walk" THEN resolverIndex + 1 ELSE resolverIndex

\* line 267: the next resolver of projectDir is called; kind is what it gives back
CallResolver(kind) ==
    /\ LoopContinues
    /\ resolverIndex <= Len(ResolversAt(projectDir))
    /\ ResolverAnswers(kind, <<projectDir, resolverIndex>>,
                       Resolver(resolversByDir[projectDir][resolverIndex], projectDir,
                                resolutionCache[<<projectDir, resolverIndex>>],
                                call.idOrPath, call.importerPath, fileSystem))
    /\ UNCHANGED <<resolversByDir, fileSystem, inputs, call, calls, projectDir, prevProjectDir>>
    /\ UNCHANGED <<tvars, hvars, wvars, pvars, console>>

\* lines 268-270: if (resolved) return resolved
ResolverResolved ==
    /\ rpc = "walk"
    /\ CallResolver("resolved")

\* lines 271-274: if (matched) break outer
ResolverMatchedUnresolved ==
    /\ rpc = "walk"
    /\ CallResolver("matched")

\* the for loop goes on to the next resolver of the directory
ResolverDeclined ==
    /\ rpc = "walk"
    /\ CallResolver("declined")

\* lines 277-278: no resolver (left) in projectDir
MoveUp ==
    /\ rpc = "walk"
    /\ LoopContinues
    /\ resolverIndex > Len(ResolversAt(projectDir))
    /\ prevProjectDir' = projectDir
    /\ projectDir' = dirname(projectDir)
    /\ resolverIndex' = 1
    /\ UNCHANGED <<resolversByDir, resolutionCache, fileSystem, inputs, call, calls,
                   consulted, returned, rpc>>
    /\ UNCHANGED <<tvars, hvars, wvars, pvars, console>>

\* line 263 fails at the file system root: the function ends without a return
ReturnUndefined ==
    /\ rpc = "walk"
    /\ ~LoopContinues
    /\ rpc' = "returned"
    /\ UNCHANGED <<resolversByDir, resolutionCache, fileSystem, inputs, call, calls,
                   projectDir, prevProjectDir, resolverIndex, consulted, returned>>
    /\ UNCHANGED <<tvars, hvars, wvars, pvars, console>>

NextResolve ==
    \/ CallResolveAmbiguous
    \/ ResolverResolved
    \/ ResolverMatchedUnresolved
    \/ ResolverDeclined
    \/ MoveUp
    \/ ReturnUndefined

\* dir is ancestor, or is the directory itself
IsAncestorOrSelf(ancestor, dir) ==
    IF ancestor = dir THEN TRUE
    ELSE IF ancestor = Root THEN TRUE
    ELSE startsWith(dir, ancestor \o <<"/">>)

\* the paths the resolvers above an importing file ask the file system for
Universe(registry, inp) ==
    UNION {Resolver(registry[k[1]][k[2]], k[1], EmptyCache, [id |-> id, params |-> FALSE],
                    importer, {}).probed :
               k \in ResolverKeys(registry), id \in inp.ids,
               importer \in {i \in inp.importers : i.supported}}

\* lines 229-246: getResolvers pushes each config's resolver onto the list of its directory
RECURSIVE RegistryOf(_)
RegistryOf(placements) ==
    IF placements = <<>> THEN [d \in Dirs |-> <<>>]
    ELSE [RegistryOf(Front(placements)) EXCEPT
              ![Last(placements).dir] = Append(@, Last(placements).config)]

\* the registries of at most n resolvers in dirs, at most MaxResolversPerDir in a directory
Registries(dirs, configs, n) ==
    {registry \in {RegistryOf(ps) : ps \in SeqsUpTo([dir : dirs, config : configs], n)} :
        \A d \in Dirs : Len(registry[d]) <= MaxResolversPerDir}

\* the state before the first resolveAmbiguous call
InitResolver(registries, ids, importers, allowed) ==
    /\ InitTraversal
    /\ NoLine
    /\ NoProcess
    /\ NoRootSearch
    /\ resolversByDir \in registries
    /\ resolutionCache = EmptyCaches(resolversByDir)
    /\ inputs = [ids |-> ids, params |-> BOOLEAN, importers |-> importers]
    /\ fileSystem \in SUBSET Universe(resolversByDir, inputs)
    /\ call = <<>>
    /\ calls = [started |-> 0, allowed |-> allowed]
    /\ projectDir = <<>>
    /\ prevProjectDir = <<>>
    /\ resolverIndex = 1
    /\ consulted = <<>>
    /\ returned = undefinedPath
    /\ rpc = "idle"

\* the alias map { "x/*": ["u/*"] }
PathsXStar == <<[pattern |-> <<"x", "/", "*">>, paths |-> <<(<<"u", "/", "*">>)>>]>>

\* the configs createResolver makes a resolver for (lines 307-324): baseUrl or paths is set
ConfigBaseUrl == [include |-> "all", baseUrl |-> TRUE, hasPaths |-> FALSE, paths |-> <<>>]
ConfigBaseUrlN == [include |-> "n", baseUrl |-> TRUE, hasPaths |-> FALSE, paths |-> <<>>]
ConfigPaths == [include |-> "all", baseUrl |-> FALSE, hasPaths |-> TRUE, paths |-> PathsXStar]
ConfigPathsBaseUrl == [include |-> "all", baseUrl |-> TRUE, hasPaths |-> TRUE, paths |-> PathsXStar]
WalkConfigs == {ConfigBaseUrl, ConfigBaseUrlN, ConfigPaths, ConfigPathsBaseUrl}

\* one call of resolveAmbiguous, over every registry of up to MaxResolvers resolvers
InitResolve ==
    InitResolver(Registries(Dirs, WalkConfigs, MaxResolvers), {IdXY},
                 [dir : {DirN, DirP}, supported : BOOLEAN], MaxCalls)

SpecResolve == InitResolve /\ [][NextResolve]_vars

\* repeated calls through the resolvers of one or two configs
RepeatedConfigs == {ConfigBaseUrl, ConfigPathsBaseUrl}

InitRepeated ==
    InitResolver(Registries({Root, DirP}, RepeatedConfigs, MaxRepeatedResolvers), {IdXY},
                 [dir : {DirN, DirP}, supported : BOOLEAN], MaxRepeatedCalls)

SpecRepeated == InitRepeated /\ [][NextResolve]_vars

\* alias maps over three patterns that can match the same specifier, in every
\* declaration order: { "x/*": ["u/*"], "x/y*": ["v"] or ["t/*"], "x/yz": ["w"] }
AliasXStar == [pattern |-> <<"x", "/", "*">>, paths |-> <<(<<"u", "/", "*">>)>>]
AliasXYStar == [pattern |-> <<"x", "/", "y", "*">>, paths |-> <<(<<"v">>)>>]
AliasXYZ == [pattern |-> <<"x", "/", "y", "z">>, paths |-> <<(<<"w">>)>>]

\* { "x/y*": ["t/*"] }: the wildcard of the pattern does not follow a slash
AliasXYStarT == [pattern |-> <<"x", "/", "y", "*">>, paths |-> <<(<<"t", "/", "*">>)>>]

AliasMaps ==
    {m \in SeqsUpTo({AliasXStar, AliasXYStar, AliasXYZ, AliasXYStarT}, MaxPatterns) :
        Len(m) > 0 /\ \A i, j \in 1 .. Len(m) : i # j => m[i].pattern # m[j].pattern}

PathsConfigs ==
    {[include |-> "all", baseUrl |-> FALSE, hasPaths |-> TRUE, paths |-> m] : m \in AliasMaps}

\* one call through the resolver of one config with aliases
InitPaths ==
    InitResolver(Registries({DirP}, PathsConfigs, 1), {IdXY, IdXYZ},
                 [dir : {DirP}, supported : BOOLEAN], MaxCalls)

SpecPaths == InitPaths /\ [][NextResolve]_vars

(***************************************************************************)
(* Properties of resolveAmbiguous.                                         *)
(***************************************************************************)
KeyOf(e) == <<e.dir, e.index>>

ConfigAt(k) == resolversByDir[k[1]][k[2]]

\* the resolvers registered at the importing file's directory and above it
ChainKeys == {k \in ResolverKeys(resolversByDir) : IsAncestorOrSelf(k[1], call.importerPath.dir)}

\* k is called before m on the way up: deeper directory first, then registration order
Before(k, m) == IF k[1] = m[1] THEN k[2] < m[2] ELSE Len(k[1]) > Len(m[1])

\* what the resolver k gives for the call in progress
Answer(k) ==
    Resolver(ConfigAt(k), k[1], resolutionCache[k], call.idOrPath, call.importerPath, fileSystem)

\* the nearest applicable resolver: it is in scope and no resolver called before it is
IsNearestApplicable(k) ==
    /\ k \in ChainKeys
    /\ Answer(k).matched
    /\ \A m \in ChainKeys : Before(m, k) => ~Answer(m).matched

\* none of the config's alias candidates nor its baseUrl candidate exists
NoCandidateResolves(k) ==
    ~resolveIdOrPath(ConfigAt(k), k[1], call.idOrPath.id, call.importerPath, fileSystem).matched

\* the default package lookup: <d>/node_modules/<id> for the nearest d at or above dir
LookupDirs(id, dir) ==
    {d \in Dirs : IsAncestorOrSelf(d, dir) /\ join(join(d, <<"node_modules">>), id) \in fileSystem}

DefaultLookup(id, dir) ==
    IF LookupDirs(id, dir) = {} THEN <<>>
    ELSE LET d == CHOOSE x \in LookupDirs(id, dir) : \A y \in LookupDirs(id, dir) : Len(y) <= Len(x)
         IN  join(join(d, <<"node_modules">>), id)

\* C6: once a resolver reports itself applicable (matched) but returns no
\* path, it is the last resolver consulted: resolveAmbiguous has returned, and
\* it returned no resolution.
C6_MatchedUnresolvedStops ==
    \A i \in 1 .. Len(consulted) :
        consulted[i].kind = "matched" =>
            /\ i = Len(consulted)
            /\ rpc = "returned"
            /\ returned = undefinedPath

\* a matched resolver without a path ended the call although a later resolver
\* of its directory and a resolver of an ancestor would have given a path
C6_Witness ==
    /\ rpc = "returned"
    /\ Len(consulted) > 0
    /\ Last(consulted).kind = "matched"
    /\ \E k \in ChainKeys : k[1] = Last(consulted).dir /\ k[2] > Last(consulted).index
    /\ \E k \in ChainKeys : k[1] # Last(consulted).dir /\ Answer(k).path # <<>>

\* C7 as stated: in the scope of an applicable resolver, with none of its
\* alias candidates and not its baseUrl candidate resolving the specifier,
\* resolveAmbiguous returns no path.
C7_UnresolvedWhenNoCandidate ==
    rpc = "returned" =>
        \A k \in ChainKeys :
            (IsNearestApplicable(k) /\ NoCandidateResolves(k)) => returned = undefinedPath

\* C7 as amended: when the applicable resolver finds no alias and no baseUrl
\* candidate, the call ends with that resolver, and it returns the path the
\* resolver has cached for the specifier if it has one, else the path the
\* default package lookup finds from the importing file, and no path only
\* when that lookup finds nothing either.
C7_DefaultLookupThenUnresolved ==
    [][(rpc = "walk" /\ Len(consulted') = Len(consulted) + 1) =>
          LET k == KeyOf(Last(consulted'))
              id == call.idOrPath.id
          IN  (Last(consulted').kind # "declined" /\ NoCandidateResolves(k)) =>
                  /\ rpc' = "returned"
                  /\ returned'.path = IF resolutionCache[k][id] # <<>>
                                      THEN resolutionCache[k][id]
                                      ELSE DefaultLookup(id, call.importerPath.dir)]_vars

\* nothing is cached, the applicable resolver has no candidate and the default
\* lookup finds nothing: no path is returned although an ancestor's resolver
\* would have given one
C7_Witness ==
    /\ rpc = "returned"
    /\ returned = undefinedPath
    /\ \E k \in ChainKeys :
          /\ IsNearestApplicable(k)
          /\ NoCandidateResolves(k)
          /\ DefaultLookup(call.idOrPath.id, call.importerPath.dir) = <<>>
          /\ \E m \in ChainKeys : Len(m[1]) < Len(k[1]) /\ Answer(m).path # <<>>

\* C8: a specifier that no alias and no baseUrl candidate of the nearest
\* applicable config resolves, and that the default package lookup finds
\* from the importing file, is resolved to the file that lookup finds.
C8_DefaultLookupResult ==
    rpc = "returned" =>
        \A k \in ChainKeys :
            (/\ IsNearestApplicable(k)
             /\ NoCandidateResolves(k)
             /\ DefaultLookup(call.idOrPath.id, call.importerPath.dir) # <<>>) =>
                returned.path = DefaultLookup(call.idOrPath.id, call.importerPath.dir)

\* C9: the resolvers consulted are those of the importing file's directory
\* and its ancestors, nearest directory first and none skipped; and when the
\* nearest applicable resolver and a resolver of a directory above it both
\* give a path, the path returned is the nearest one's.
C9_NearestConfigWins ==
    rpc # "idle" =>
        /\ \A i \in 1 .. Len(consulted) :
              /\ KeyOf(consulted[i]) \in ChainKeys
              /\ \A k \in ChainKeys :
                    Before(k, KeyOf(consulted[i])) <=>
                        \E j \in 1 .. (i - 1) : KeyOf(consulted[j]) = k
        /\ rpc = "returned" =>
              \A n \in ChainKeys :
                  (/\ IsNearestApplicable(n)
                   /\ Answer(n).path # <<>>
                   /\ \E p \in ChainKeys : Len(p[1]) < Len(n[1]) /\ Answer(p).path # <<>>) =>
                      returned.path = Answer(n).path

\* a file in /p got the path of the resolver at /p, while the resolver at /
\* gives another path and a resolver of a directory not above /p (/p/n or /q)
\* gives one too
C9_Witness ==
    /\ rpc = "returned"
    /\ call.importerPath.dir = DirP
    /\ \E n \in ChainKeys :
          /\ n[1] = DirP
          /\ IsNearestApplicable(n)
          /\ returned.path = Answer(n).path
          /\ \E p \in ChainKeys :
                p[1] = Root /\ Answer(p).path # <<>> /\ Answer(p).path # returned.path
    /\ \E k \in ResolverKeys(resolversByDir) : k \notin ChainKeys /\ Answer(k).path # <<>>

\* the number of characters of a pattern before its first wildcard
LiteralPrefixLength(pattern) ==
    Cardinality({i \in 1 .. Len(pattern) : \A j \in 1 .. i : pattern[j] # "*"})

PositionIn(seq, x) == CHOOSE i \in 1 .. Len(seq) : seq[i] = x

\* C10: of two patterns of a config that both match the specifier, the one
\* with the longer literal prefix is tried first: the other one is not tried
\* unless the longer one was tried before it.
C10_LongerPrefixTriedFirst ==
    \A i \in 1 .. Len(consulted) :
        LET tried == consulted[i].tried
            patterns == Range(PatternsOf(ConfigAt(KeyOf(consulted[i])).paths))
        IN  \A a, b \in patterns :
                (/\ globMatch(a, call.idOrPath.id)
                 /\ globMatch(b, call.idOrPath.id)
                 /\ LiteralPrefixLength(a) > LiteralPrefixLength(b)
                 /\ b \in Range(tried)) =>
                    /\ a \in Range(tried)
                    /\ PositionIn(tried, a) < PositionIn(tried, b)
(***************************************************************************)
(* Properties of the node statuses and of the recorded cycles.             *)
(***************************************************************************)
\* NodeStatus, lines 88-92: Unvisited = 0, Visiting = 1, Visited = 2
Rank(status) == IF status = "Unvisited" THEN 0 ELSE IF status = "Visiting" THEN 1 ELSE 2

\* C19: in every step of a traversal every node of the tree stays in the
\* tree and its status does not move backward in the order Unvisited,
\* Visiting, Visited.
C19_StatusOnlyForward ==
    [][\A f \in DOMAIN tree :
          /\ f \in DOMAIN tree'
          /\ Rank(tree'[f].status) >= Rank(tree[f].status)]_vars

\* the next import of the node on top of the stack names a node that is
\* Visited, while another node is Visiting below it
C19_Witness ==
    /\ HasNextImport
    /\ NextTargetStatus = "Visited"
    /\ Len(stack) >= 2
    /\ \A i \in 1 .. Len(stack) : tree[stack[i].file].status = "Visiting"

\* C20 as stated: in every recorded cycle each entry imports the entry that
\* follows it, and the last entry imports the first entry.
C20_ConsecutiveAndWrapEdges ==
    \A i \in 1 .. Len(cycles) :
        /\ \A j \in 1 .. (Len(cycles[i]) - 1) : Edge(cycles[i][j], cycles[i][j + 1])
        /\ Edge(cycles[i][Len(cycles[i])], cycles[i][1])

\* C20 as amended: in every recorded cycle each entry imports the entry that
\* follows it, and the last entry is the first entry once more (the file
\* where the cycle was entered), so the list is closed without a further
\* edge from the last entry to the first.
C20_ConsecutiveEdgesClosed ==
    \A i \in 1 .. Len(cycles) :
        /\ Len(cycles[i]) >= 2
        /\ \A j \in 1 .. (Len(cycles[i]) - 1) : Edge(cycles[i][j], cycles[i][j + 1])
        /\ cycles[i][Len(cycles[i])] = cycles[i][1]

\* a cycle over three files, entered below the entry file, is recorded, and
\* the file where it was entered does not import itself
C20_Witness ==
    /\ \E i \in 1 .. Len(cycles) :
          /\ Len(cycles[i]) = 4
          /\ DistinctFiles(cycles[i]) = 3
          /\ cycles[i][1] # entryFile
          /\ ~Edge(cycles[i][1], cycles[i][1])
(***************************************************************************)
(* hasImport (import.ts).  A line is a sequence of tokens; a token is one  *)
(* character (" ", "'", "{", "(", ...) or a word of several characters     *)
(* that the regular expressions can only take as a whole or step over      *)
(* (import, export, type, from, as).  Both quote characters behave alike   *)
(* in the three expressions and are written "'".                           *)
(***************************************************************************)
MaxDecls == 2

Words == {"import", "export", "type", "from", "as"}
IsQuote(t) == t = "'"
IsSpace(t) == t = " "
IsBrace(t) == t = "{" \/ t = "}"

\* \s* : the first position at or after p that holds no white space
skipSpaces(line, p) ==
    IF \E k \in p .. Len(line) : ~IsSpace(line[k])
    THEN CHOOSE k \in p .. Len(line) :
             /\ ~IsSpace(line[k])
             /\ \A j \in p .. (k - 1) : IsSpace(line[j])
    ELSE Len(line) + 1

\* the first position at or after p that holds the token t, or 0
nextToken(line, p, t) ==
    IF \E k \in p .. Len(line) : line[k] = t
    THEN CHOOSE k \in p .. Len(line) :
             /\ line[k] = t
             /\ \A j \in p .. (k - 1) : line[j] # t
    ELSE 0

NoMatch == [ok |-> FALSE, specifier |-> <<>>, end |-> 0]

\* ['"]([^'"]+)['"] with the opening quote at q: the capture is the text up
\* to the next quote and is not empty
closeCapture(line, q, e) ==
    IF e > q + 1
    THEN [ok |-> TRUE, specifier |-> SubSeq(line, q + 1, e - 1), end |-> e + 1]
    ELSE NoMatch

capture(line, q) ==
    IF q >= 1 /\ q <= Len(line) /\ IsQuote(line[q])
    THEN closeCapture(line, q, nextToken(line, q + 1, "'"))
    ELSE NoMatch

\* \s+(?:[^'"{}]+\s+from\s+)? up to the opening quote at q, from p
\* without the optional group: only white space, at least one
onlySpaces(line, p, q) == q > p /\ \A k \in p .. (q - 1) : IsSpace(line[k])

\* with the optional group: white space at p, a text without braces, white
\* space, from at r, white space
bindingFrom(line, p, q, r) ==
    /\ r >= p + 3
    /\ r < q - 1
    /\ IsSpace(line[p])
    /\ line[r] = "from"
    /\ IsSpace(line[r - 1])
    /\ \A k \in (p + 1) .. (r - 2) : ~IsBrace(line[k])
    /\ \A k \in (r + 1) .. (q - 1) : IsSpace(line[k])

lastNonSpaceBefore(line, p, q) ==
    IF \E k \in p .. (q - 1) : ~IsSpace(line[k])
    THEN CHOOSE k \in p .. (q - 1) :
             /\ ~IsSpace(line[k])
             /\ \A j \in (k + 1) .. (q - 1) : IsSpace(line[j])
    ELSE 0

firstAlternativeAt(line, p, q) ==
    IF q = 0 THEN NoMatch
    ELSE IF onlySpaces(line, p, q)
            \/ bindingFrom(line, p, q, lastNonSpaceBefore(line, p, q))
         THEN capture(line, q)
         ELSE NoMatch

firstAlternative(line, p) == firstAlternativeAt(line, p, nextToken(line, p, "'"))

\* \s*\([^)]*\)\s*. and the opening quote: after the closing parenthesis
\* at c the white space ends at d, and the single character is line[d]
\* or, failing that, the last white space before d
afterParenthesis(line, c, d) ==
    IF d <= Len(line) /\ line[d] \notin Words /\ capture(line, d + 1).ok
    THEN capture(line, d + 1)
    ELSE IF d > c + 1 THEN capture(line, d) ELSE NoMatch

closeParenthesis(line, c) ==
    IF c = 0 THEN NoMatch ELSE afterParenthesis(line, c, skipSpaces(line, c + 1))

openParenthesis(line, k) ==
    IF k <= Len(line) /\ line[k] = "("
    THEN closeParenthesis(line, nextToken(line, k + 1, ")"))
    ELSE NoMatch

secondAlternative(line, p) == openParenthesis(line, skipSpaces(line, p))

\* .*\s+from\s+ and the opening quote: .* is greedy, so the last from
\* after p that completes the match is taken
fromAt(line, p, f) ==
    /\ line[f] = "from"
    /\ f - 1 >= p
    /\ IsSpace(line[f - 1])
    /\ f + 1 <= Len(line)
    /\ IsSpace(line[f + 1])
    /\ capture(line, skipSpaces(line, f + 1)).ok

thirdAlternative(line, p) ==
    IF \E f \in (p + 1) .. Len(line) : fromAt(line, p, f)
    THEN LET f == CHOOSE g \in (p + 1) .. Len(line) :
                      /\ fromAt(line, p, g)
                      /\ \A h \in (g + 1) .. Len(line) : ~fromAt(line, p, h)
         IN  capture(line, skipSpaces(line, f + 1))
    ELSE NoMatch

\* the three alternatives in their order of preference, from p
alternatives(line, p) ==
    IF firstAlternative(line, p).ok THEN firstAlternative(line, p)
    ELSE IF secondAlternative(line, p).ok THEN secondAlternative(line, p)
    ELSE thirdAlternative(line, p)

\* IMPORT_EXPORT_REGEX at the start position i: the optional keyword is
\* taken first and given up when nothing matches after it
IMPORT_EXPORT_REGEX(line, i) ==
    IF line[i] \in {"import", "export"} /\ alternatives(line, i + 1).ok
    THEN alternatives(line, i + 1)
    ELSE alternatives(line, i)

\* DYNAMIC_IMPORT_REGEX at the start position i
dynamicClose(line, m) ==
    IF m.ok /\ skipSpaces(line, m.end) <= Len(line)
            /\ line[skipSpaces(line, m.end)] = ")"
    THEN [m EXCEPT !.end = skipSpaces(line, m.end) + 1]
    ELSE NoMatch

dynamicOpen(line, k) ==
    IF k <= Len(line) /\ line[k] = "("
    THEN dynamicClose(line, capture(line, skipSpaces(line, k + 1)))
    ELSE NoMatch

DYNAMIC_IMPORT_REGEX(line, i) ==
    IF line[i] = "import" THEN dynamicOpen(line, skipSpaces(line, i + 1)) ELSE NoMatch

\* IMPORT_TYPE_REGEX matches somewhere in the line
IMPORT_TYPE_REGEX(line) ==
    \E i \in 1 .. Len(line) :
        /\ line[i] \in {"import", "export"}
        /\ i + 1 <= Len(line)
        /\ IsSpace(line[i + 1])
        /\ \E t \in (i + 2) .. Len(line) :
              /\ t = skipSpaces(line, i + 1)
              /\ line[t] = "type"
              /\ t + 1 <= Len(line)
              /\ IsSpace(line[t + 1])
              /\ skipSpaces(line, t + 1) <= Len(line)
              /\ line[skipSpaces(line, t + 1)] = "{"

\* line.matchAll(regex): the captures of the successive matches, each
\* search starting where the previous match ended
RECURSIVE matchAllImportExport(_, _)
matchAllImportExport(line, pos) ==
    IF \E i \in pos .. Len(line) : IMPORT_EXPORT_REGEX(line, i).ok
    THEN LET i == CHOOSE k \in pos .. Len(line) :
                      /\ IMPORT_EXPORT_REGEX(line, k).ok
                      /\ \A j \in pos .. (k - 1) : ~IMPORT_EXPORT_REGEX(line, j).ok
         IN  {IMPORT_EXPORT_REGEX(line, i).specifier}
                 \cup matchAllImportExport(line, IMPORT_EXPORT_REGEX(line, i).end)
    ELSE {}

RECURSIVE matchAllDynamic(_, _)
matchAllDynamic(line, pos) ==
    IF \E i \in pos .. Len(line) : DYNAMIC_IMPORT_REGEX(line, i).ok
    THEN LET i == CHOOSE k \in pos .. Len(line) :
                      /\ DYNAMIC_IMPORT_REGEX(line, k).ok
                      /\ \A j \in pos .. (k - 1) : ~DYNAMIC_IMPORT_REGEX(line, j).ok
         IN  {DYNAMIC_IMPORT_REGEX(line, i).specifier}
                 \cup matchAllDynamic(line, DYNAMIC_IMPORT_REGEX(line, i).end)
    ELSE {}

hasImport(line, idOrPath) ==
    IF idOrPath \in matchAllImportExport(line, 1) /\ ~IMPORT_TYPE_REGEX(line)
    THEN TRUE
    ELSE idOrPath \in matchAllDynamic(line, 1)

\* the declarations a line is written from
ValueForms == {"sideEffect", "default", "namespace", "named", "mixed", "dynamic",
               "exportNamed", "exportDefault", "exportAll"}
TypeForms == {"typeNamed", "typeDefault", "exportType"}
OtherForms == {"stringLiteral"}
Forms == ValueForms \cup TypeForms \cup OtherForms
Specifiers == {<<"s">>, <<"o">>}

quoted(m) == <<"'">> \o m \o <<"'">>
fromQuoted(m) == <<" ", "from", " ">> \o quoted(m)

\* the text of one declaration
render(d) ==
    IF d.form = "sideEffect" THEN <<"import", " ">> \o quoted(d.specifier)
    ELSE IF d.form = "default" THEN <<"import", " ", "x">> \o fromQuoted(d.specifier)
    ELSE IF d.form = "namespace"
         THEN <<"import", " ", "*", " ", "as", " ", "x">> \o fromQuoted(d.specifier)
    ELSE IF d.form = "named"
         THEN <<"import", " ", "{", " ", "x", " ", "}">> \o fromQuoted(d.specifier)
    ELSE IF d.form = "mixed"
         THEN <<"import", " ", "x", ",", " ", "{", " ", "x", " ", "}">> \o fromQuoted(d.specifier)
    ELSE IF d.form = "dynamic" THEN <<"import", "(">> \o quoted(d.specifier) \o <<")">>
    ELSE IF d.form = "exportNamed"
         THEN <<"export", " ", "{", " ", "x", " ", "}">> \o fromQuoted(d.specifier)
    ELSE IF d.form = "exportDefault" THEN <<"export", " ", "x">> \o fromQuoted(d.specifier)
    ELSE IF d.form = "exportAll" THEN <<"export", " ", "*">> \o fromQuoted(d.specifier)
    ELSE IF d.form = "typeNamed"
         THEN <<"import", " ", "type", " ", "{", " ", "T", " ", "}">> \o fromQuoted(d.specifier)
    ELSE IF d.form = "typeDefault"
         THEN <<"import", " ", "type", " ", "T">> \o fromQuoted(d.specifier)
    ELSE IF d.form = "exportType"
         THEN <<"export", " ", "type", " ", "{", " ", "T", " ", "}">> \o fromQuoted(d.specifier)
    ELSE <<"x", " ", "=", " ">> \o quoted(d.specifier)

\* several declarations on one line, separated by "; "
RECURSIVE renderLine(_)
renderLine(ds) ==
    IF Len(ds) = 0 THEN <<>>
    ELSE IF Len(ds) = 1 THEN render(ds[1])
    ELSE render(ds[1]) \o <<";", " ">> \o renderLine(Tail(ds))

InitImport ==
    /\ InitTraversal
    /\ NoResolution
    /\ NoProcess
    /\ NoRootSearch
    /\ decls \in SeqsUpTo([form : Forms, specifier : Specifiers], MaxDecls) \ {<<>>}
    /\ lineText = renderLine(decls)
    /\ lineId \in Specifiers
    /\ lineResult = [returned |-> FALSE, value |-> FALSE]

\* findImportLineInfo, line 231: hasImport(line, originalImport)
CallHasImport ==
    /\ ~lineResult.returned
    /\ lineText # <<>>
    /\ lineResult' = [returned |-> TRUE, value |-> hasImport(lineText, lineId)]
    /\ UNCHANGED <<decls, lineText, lineId>>
    /\ UNCHANGED <<tvars, rvars, pvars, wvars, console>>

NextImportCheck == CallHasImport

SpecImport == InitImport /\ [][NextImportCheck]_vars

\* the line holds a value import, re-export or dynamic import of the specifier
HasValueImportOf(ds, m) ==
    \E i \in 1 .. Len(ds) : ds[i].form \in ValueForms /\ ds[i].specifier = m

\* C18: hasImport(line, s) is true exactly when the line contains a value
\* (not type-only) import, re-export or dynamic import whose specifier is s.
C18_TrueExactlyForValueImports ==
    lineResult.returned => (lineResult.value = HasValueImportOf(decls, lineId))

(***************************************************************************)
(* Properties of enhanceCyclesWithLineInfo's reports.                      *)
(***************************************************************************)
Attached(importInfo, importer, importee) ==
    \E k \in 1 .. Len(importInfo) :
        importInfo[k] = [importer |-> importer, importee |-> importee]

Warned(importer, importee) ==
    [kind |-> "missing import info", importer |-> importer, importee |-> importee] \in console

\* C17: enhanceCyclesWithLineInfo returns one entry for every input cycle,
\* in the same order, also when an import line cannot be found, and every
\* pair of a cycle whose detail is not attached is reported with a warning.
C17_EveryCycleKeptEveryGapWarned ==
    pc = "enhanced" =>
        /\ Len(enhanced) = Len(cycles)
        /\ \A i \in 1 .. Len(cycles) :
              /\ enhanced[i].cycle = cycles[i]
              /\ \A j \in 1 .. (Len(cycles[i]) - 1) :
                    \/ Attached(enhanced[i].importInfo, cycles[i][j], cycles[i][j + 1])
                    \/ Warned(cycles[i][j], cycles[i][j + 1])

(***************************************************************************)
(* The process: cli.ts runs findCycles once, or again after every change   *)
(* notification in watch mode; each run is a traversal whose getImports    *)
(* reads the files on disk and resolves their specifiers (index.ts lines   *)
(* 53-84).  A file path is a sequence whose last element is the            *)
(* extension.  The files' specifiers are absolute paths or the bare        *)
(* specifier x/y, with or without the query suffix ?q (the last element of *)
(* the sequence); the resolutions of one file's specifiers are made one    *)
(* after the other, in the order of the scan.                              *)
(***************************************************************************)
MaxRuns == 2
MaxSpecifiers == 2

FileA == <<"/", "p", "/", "a", ".ts">>
FileB == <<"/", "p", "/", "n", "/", "b", ".ts">>
FileD == <<"/", "p", "/", "d", ".css">>
\* /p/n/node_modules/x/y, a file of its own or a link to the workspace file /p/a.ts
LinkXY == join(join(DirN, <<"node_modules">>), IdXY)

\* the specifier x/y?q
IdXYQuery == IdXY \o <<"?q">>

\* index.ts line 60, file.split(/[?#]/).at(0), and resolver.ts lines 410-413
stripQuery(file) == IF file = <<>> THEN file ELSE IF Last(file) = "?q" THEN Front(file) ELSE file

\* resolver.ts line 436: path && params ? path + params : path
reattach(r) == IF r.params THEN r.path \o <<"?q">> ELSE r.path

\* resolver.ts line 305
SUPPORTED_EXTENSION_REGEX(file) == Last(file) \in {".ts", ".tsx", ".js", ".jsx"}

\* file.includes('/node_modules/')
includesNodeModules(file) == \E i \in 1 .. Len(file) : file[i] = "node_modules"

\* resolver.ts lines 250-252
isAmbiguousPathOrId(p) ==
    IF p = <<>> THEN TRUE ELSE p[1] \notin {".", ".."} /\ ~isAbsolute(p)

\* the importing file as the resolvers see it
importerOf(file) == [dir |-> dirname(file), supported |-> SUPPORTED_EXTENSION_REGEX(file)]

\* resolveAmbiguous (resolver.ts lines 254-280) as one function: the walk
\* from dir upward, at the resolver index of dir; returns the path (<<>> for
\* undefined) and the resolvers' caches afterwards
RECURSIVE resolveAmbiguous(_, _, _, _, _, _, _, _)
RECURSIVE resolverAnswered(_, _, _, _, _, _, _, _, _)
resolverAnswered(registry, caches, id, importer, dir, prev, index, E, r) ==
    IF afterAnswer(KindOf(r)) = "walk"
    THEN resolveAmbiguous(registry, [caches EXCEPT ![<<dir, index>>] = r.cache],
                          id, importer, dir, prev, index + 1, E)
    ELSE [path |-> IF KindOf(r) = "resolved" THEN reattach(r) ELSE <<>>,
          caches |-> [caches EXCEPT ![<<dir, index>>] = r.cache]]

resolveAmbiguous(registry, caches, id, importer, dir, prev, index, E) ==
    IF dir = <<>> \/ dir = prev THEN [path |-> <<>>, caches |-> caches]
    ELSE IF dir \notin DOMAIN registry
    THEN resolveAmbiguous(registry, caches, id, importer, dirname(dir), dir, 1, E)
    ELSE IF index > Len(registry[dir])
    THEN resolveAmbiguous(registry, caches, id, importer, dirname(dir), dir, 1, E)
    ELSE resolverAnswered(registry, caches, id, importer, dir, prev, index, E,
                          Resolver(registry[dir][index], dir, caches[<<dir, index>>],
                                   [id |-> stripQuery(id), params |-> id # stripQuery(id)],
                                   importer, E))

\* index.ts lines 71-76: the resolution of one scanned path
resolveScanned(p, file, registry, caches, E) ==
    IF isAmbiguousPathOrId(p)
    THEN resolveAmbiguous(registry, caches, p, importerOf(file), startDir(importerOf(file)),
                          <<>>, 1, E)
    ELSE [path |-> p, caches |-> caches]

\* index.ts lines 69-80: the scanned paths from index i on
RECURSIVE resolveEach(_, _, _, _, _, _)
consResolved(r, rest) == [resolved |-> <<r.path>> \o rest.resolved, caches |-> rest.caches]

resolveRest(r, specs, i, file, registry, E) ==
    consResolved(r, resolveEach(specs, i + 1, file, registry, r.caches, E))

resolveEach(specs, i, file, registry, caches, E) ==
    IF i > Len(specs) THEN [resolved |-> <<>>, caches |-> caches]
    ELSE resolveRest(resolveScanned(specs[i], file, registry, caches, E),
                     specs, i, file, registry, E)

\* only an unresolved path is dropped
keepFound(resolved) == resolved # <<>>

\* index.ts lines 81-83
keepResolved(resolved) == resolved # <<>> /\ ~includesNodeModules(resolved)

filterResolved(all) ==
    [threw |-> FALSE, scanFailed |-> FALSE,
     imports |-> SelectSeq(all.resolved, keepResolved), caches |-> all.caches]

\* index.ts lines 61-84, file being the path without its suffix
readImports(file, src, registry, caches, E) ==
    IF ~SUPPORTED_EXTENSION_REGEX(file)
    THEN [threw |-> FALSE, scanFailed |-> FALSE, imports |-> <<>>, caches |-> caches]
    ELSE IF file \notin DOMAIN src
    THEN [threw |-> TRUE, scanFailed |-> FALSE, imports |-> <<>>, caches |-> caches]
    ELSE IF ~src[file].readable
    THEN [threw |-> TRUE, scanFailed |-> FALSE, imports |-> <<>>, caches |-> caches]
    ELSE IF ~src[file].scannable
    THEN [threw |-> FALSE, scanFailed |-> TRUE, imports |-> <<>>, caches |-> caches]
    ELSE filterResolved(resolveEach(src[file].specifiers, 1, file, registry, caches, E))

\* getImports(file), index.ts lines 53-84, once resolversByDir is set: what
\* it returns or that it threw, and the resolvers' caches afterwards
getImportsOf(file, src, registry, caches, E) ==
    IF includesNodeModules(file)
    THEN [threw |-> FALSE, scanFailed |-> FALSE, imports |-> <<>>, caches |-> caches]
    ELSE readImports(stripQuery(file), src, registry, caches, E)

\* no failure is written to the console
reportsNothing(g, file) == {}

\* pushToStack's console.error(e), index.ts line 124, and
\* transpilerScanWithWarnPath's console.warn('Scanning error'), line 46
reportsOf(g, file) ==
    IF g.threw THEN {[kind |-> "error", file |-> file]}
    ELSE IF g.scanFailed THEN {[kind |-> "Scanning error", file |-> file]}
    ELSE {}

\* index.ts lines 55-57: resolversByDir is read from disk on the first call only
Registry == IF resolversLoaded THEN resolversByDir ELSE configFiles
Caches == IF resolversLoaded THEN resolutionCache ELSE EmptyCaches(configFiles)

\* pushToStack(file) with the stack s, g being what getImports(file) did
Scanned(file, s, g) ==
    /\ resolversByDir' = Registry
    /\ resolversLoaded' = TRUE
    /\ resolutionCache' = g.caches
    /\ console' = console \cup reportsOf(g, file)
    /\ tree' = pushToStack(tree, s, path, file, g.imports).tree
    /\ stack' = pushToStack(tree, s, path, file, g.imports).stack
    /\ path' = pushToStack(tree, s, path, file, g.imports).path

\* the files a.ts and n/b.ts as they may be on disk
SourceTexts ==
    {[readable |-> FALSE, scannable |-> FALSE, specifiers |-> <<>>],
     [readable |-> TRUE, scannable |-> FALSE, specifiers |-> <<>>]}
    \cup {[readable |-> TRUE, scannable |-> TRUE, specifiers |-> s] :
             s \in SeqsUpTo({IdXY, IdXYQuery, FileA, FileB, FileD}, MaxSpecifiers)}

InitProcess ==
    /\ NoLine
    /\ NoRootSearch
    /\ entryFile = FileA
    /\ tree = <<>>
    /\ cycles = <<>>
    /\ stack = <<>>
    /\ path = <<>>
    /\ pc = "start"
    /\ unlocatable = {}
    /\ enhanced = <<>>
    /\ sources \in [{FileA, FileB} -> SourceTexts]
    /\ links \in {<<>>, (LinkXY :> FileA)}
    /\ fileSystem \in SUBSET {LinkXY}
    /\ configFiles \in {<<>>, (DirP :> <<ConfigBaseUrl>>)}
    /\ resolversByDir = <<>>
    /\ resolutionCache = <<>>
    /\ resolversLoaded = FALSE
    /\ inputs = <<>>
    /\ call = <<>>
    /\ calls = [started |-> 0, allowed |-> 0]
    /\ projectDir = <<>>
    /\ prevProjectDir = <<>>
    /\ resolverIndex = 1
    /\ consulted = <<>>
    /\ returned = <<>>
    /\ rpc = "idle"
    /\ ppc = "args"
    /\ argv \in [help : BOOLEAN, watch : BOOLEAN, positionals : 0 .. 2]
    /\ exitStatus = -1
    /\ history = <<>>
    /\ console = {}

walkVars == <<inputs, call, calls, projectDir, prevProjectDir, resolverIndex, consulted,
              returned, rpc>>

\* cli.ts lines 21-37: usage and exit(0), or go on to findCycles
ParseArgs ==
    /\ ppc = "args"
    /\ IF argv.help THEN ppc' = "exited" /\ exitStatus' = 0
       ELSE IF argv.positionals # 1 THEN ppc' = "exited" /\ exitStatus' = 0
       ELSE ppc' = "run" /\ exitStatus' = exitStatus
    /\ UNCHANGED <<tvars, rvars, hvars, wvars, console>>
    /\ UNCHANGED <<sources, links, configFiles, resolversLoaded, argv, history>>

\* index.ts line 134: await pushToStack(entryFile)
ScanEntry ==
    /\ ppc = "run"
    /\ pc = "start"
    /\ Scanned(entryFile, stack,
               getImportsOf(entryFile, sources, Registry, Caches, fileSystem))
    /\ pc' = "loop"
    /\ UNCHANGED <<entryFile, cycles, unlocatable, enhanced, fileSystem, walkVars>>
    /\ UNCHANGED <<hvars, wvars, sources, links, configFiles, ppc, argv, exitStatus, history>>

\* index.ts lines 145-151: the next import's target is unknown or Unvisited
ScanImport ==
    /\ ppc = "run"
    /\ InLoop
    /\ Top.importIndex < Len(TopNode.imports)
    /\ NeedsPush(tree, NextImport)
    /\ Scanned(NextImport, Advanced,
               getImportsOf(NextImport, sources, Registry, Caches, fileSystem))
    /\ UNCHANGED <<entryFile, cycles, pc, unlocatable, enhanced, fileSystem, walkVars>>
    /\ UNCHANGED <<hvars, wvars, sources, links, configFiles, ppc, argv, exitStatus, history>>

\* the status of a process that ends with an uncaught error
UncaughtError == 1

\* process.exit(1) whatever was found
exitCodeAlwaysOne(cs) == 1

\* cli.ts lines 119-121, 143: exit(0) without cycles, exit(1) with cycles
exitCode(cs) == IF Len(cs) = 0 THEN 0 ELSE 1

\* cli.ts lines 118-121 and, when watching, 131-144: no cycle was found
NoCyclesDetected ==
    /\ ppc = "run"
    /\ pc = "done"
    /\ Len(cycles) = 0
    /\ IF argv.watch THEN ppc' = "watching" /\ exitStatus' = exitStatus
       ELSE ppc' = "exited" /\ exitStatus' = exitCode(cycles)
    /\ UNCHANGED <<tvars, rvars, hvars, wvars, console>>
    /\ UNCHANGED <<sources, links, configFiles, resolversLoaded, argv, history>>

\* cli.ts lines 133-144: the cycles are printed; importInfo.pop() of an empty
\* list gives undefined, and printImportInfoWithIndent(undefined) throws
PrintCycles ==
    /\ ppc = "run"
    /\ pc = "enhanced"
    /\ IF \E i \in 1 .. Len(enhanced) : enhanced[i].importInfo = <<>>
       THEN /\ ppc' = "exited"
            /\ exitStatus' = UncaughtError
            /\ console' = console \cup {[kind |-> "TypeError", file |-> entryFile]}
       ELSE IF argv.watch
       THEN ppc' = "watching" /\ exitStatus' = exitStatus /\ console' = console
       ELSE ppc' = "exited" /\ exitStatus' = exitCode(cycles) /\ console' = console
    /\ UNCHANGED <<tvars, rvars, hvars, wvars>>
    /\ UNCHANGED <<sources, links, configFiles, resolversLoaded, argv, history>>

\* cli.ts lines 147-179, 192-206: a watcher reports a change of a file of
\* the tree, the block resolves and the loop calls findCycles(true) again
ChangeNotification ==
    /\ ppc = "watching"
    /\ Len(history) < MaxRuns - 1
    /\ DOMAIN tree # {}
    /\ history' = Append(history, [nodes |-> DOMAIN tree, cycles |-> cycles])
    /\ tree' = <<>>
    /\ cycles' = <<>>
    /\ stack' = <<>>
    /\ path' = <<>>
    /\ pc' = "start"
    /\ unlocatable' = {}
    /\ enhanced' = <<>>
    /\ ppc' = "run"
    /\ UNCHANGED <<entryFile, rvars, hvars, wvars, console>>
    /\ UNCHANGED <<sources, links, configFiles, resolversLoaded, argv, exitStatus>>

\* cli.ts lines 184-191: SIGINT while watching
Interrupt ==
    /\ ppc = "watching"
    /\ ppc' = "exited"
    /\ exitStatus' = 0
    /\ UNCHANGED <<tvars, rvars, hvars, wvars, console>>
    /\ UNCHANGED <<sources, links, configFiles, resolversLoaded, argv, history>>

NextProcess ==
    \/ ParseArgs \/ ScanEntry \/ PopFrame \/ ScanImport \/ RecordCycle \/ SkipVisited
    \/ Return \/ NoCyclesDetected \/ Enhance \/ PrintCycles \/ ChangeNotification
    \/ Interrupt

SpecProcess == InitProcess /\ [][NextProcess]_vars

(***************************************************************************)
(* Properties of the process.                                              *)
(***************************************************************************)
\* reading or scanning the file fails
ReadFails(file) == IF file \in DOMAIN sources THEN ~sources[file].readable ELSE TRUE
ScanFails(file) == IF ReadFails(file) THEN FALSE ELSE ~sources[file].scannable
Fails(file) ==
    /\ SUPPORTED_EXTENSION_REGEX(file)
    /\ ~includesNodeModules(file)
    /\ (ReadFails(file) \/ ScanFails(file))

Reported(file) ==
    \/ [kind |-> "error", file |-> file] \in console
    \/ [kind |-> "Scanning error", file |-> file] \in console

\* a finished traversal has visited every file it found an import of
Completed ==
    \A f \in DOMAIN tree :
        /\ tree[f].status = "Visited"
        /\ \A i \in 1 .. Len(tree[f].imports) : tree[f].imports[i] \in DOMAIN tree

\* C11: a file whose read or scan fails is in the tree with an empty import
\* list and the failure is reported; the traversal is not abandoned: the
\* process never exits in the middle of it, and when it has ended every
\* file it found, the files after the failing one included, has been visited.
C11_FailureGivesLeafAndTraversalCompletes ==
    /\ \A f \in DOMAIN tree : Fails(f) => (tree[f].imports = <<>> /\ Reported(f))
    /\ ppc = "exited" => pc \notin {"loop"}
    /\ pc = "done" => Completed

\* n/b.ts cannot be read or scanned, and d.css, imported after it by a.ts,
\* has been visited all the same
C11_Witness ==
    /\ pc = "done"
    /\ FileB \in DOMAIN tree
    /\ Fails(FileB)
    /\ tree[FileA].imports = <<FileB, FileD>>
    /\ FileD \in DOMAIN tree
    /\ tree[FileD].status = "Visited"

\* C12: when the entry file does not exist or cannot be read, the run does
\* not complete normally with a traversal result.
C12_UnreadableEntryIsFatal ==
    ReadFails(entryFile) => ~(ppc = "exited" /\ exitStatus = 0 /\ pc = "done")

\* what default package lookup finds for the specifier from the file's directory
DefaultFinds(id, file) == packageLookup(id, dirname(file), fileSystem)

\* C13: when no config gives a resolver, an ambiguous specifier that
\* default package lookup can find from the importing file (outside
\* node_modules) is an edge of that file in the tree.
C13_DefaultResolverAloneGivesEdge ==
    \A f \in DOMAIN tree :
        (/\ configFiles = <<>>
         /\ ~Fails(f)
         /\ f \in DOMAIN sources
         /\ \E i \in 1 .. Len(sources[f].specifiers) : sources[f].specifiers[i] = IdXY
         /\ DefaultFinds(IdXY, f).matched
         /\ keepResolved(DefaultFinds(IdXY, f).path))
        => \E i \in 1 .. Len(tree[f].imports) : tree[f].imports[i] = DefaultFinds(IdXY, f).path

OneShotWithOneEntry == ~argv.watch /\ ~argv.help /\ argv.positionals = 1

\* C14: in one-shot mode with exactly one entry argument the process exits
\* with status 0 if and only if the traversal from the entry found no
\* cycles, and with status 1 otherwise.
C14_ExitStatusTellsCycles ==
    (ppc = "exited" /\ OneShotWithOneEntry) =>
        /\ pc \in {"done", "enhanced"}
        /\ exitStatus = (IF Len(cycles) = 0 THEN 0 ELSE 1)

\* the process has printed the cycle a.ts -> n/b.ts -> a.ts and exited
C14_Witness ==
    /\ ppc = "exited"
    /\ OneShotWithOneEntry
    /\ cycles = <<(<<FileA, FileB, FileA>>)>>
    /\ Len(enhanced[1].importInfo) = 2
    /\ exitStatus = 1

\* C15: a second traversal from the same entry over the same files, in the
\* same process, returns the same nodes and the same cycles in the same
\* order as the first.
C15_SecondTraversalSameResult ==
    (pc = "done" /\ Len(history) >= 1) =>
        \A i \in 1 .. Len(history) :
            /\ DOMAIN tree = history[i].nodes
            /\ cycles = history[i].cycles

\* C16: after a change notification in watch mode the new traversal starts
\* from the same entry file with the graph and the caches discarded.
C16_RestartDiscardsGraphAndCaches ==
    (ppc = "run" /\ pc = "start" /\ Len(history) >= 1) =>
        /\ entryFile = FileA
        /\ tree = <<>>
        /\ cycles = <<>>
        /\ ~resolversLoaded
        /\ \A k \in DOMAIN resolutionCache : resolutionCache[k] = EmptyCache

(***************************************************************************)
(* Properties of the stack and the path, and termination.                  *)
(***************************************************************************)
OnStack(file) == \E i \in 1 .. Len(stack) : stack[i].file = file

\* C27: in the traversal loop stack and path have equal length and hold the
\* same files in the same order, no file occurs twice on the stack, a node
\* is Visiting exactly when it is on the stack, and a next import whose
\* target is Visiting is found in path (findIndex is not -1).
C27_StackIsPath ==
    pc = "loop" =>
        /\ Len(stack) = Len(path)
        /\ \A i \in 1 .. Len(stack) : stack[i].file = path[i]
        /\ \A i, j \in 1 .. Len(stack) : stack[i].file = stack[j].file => i = j
        /\ \A f \in DOMAIN tree : (tree[f].status = "Visiting") <=> OnStack(f)
        /\ (HasNextImport /\ IsVisiting(tree, NextImport)) => findIndex(path, NextImport) >= 0

\* three files are on the stack and the top one imports the one at the bottom
C27_Witness ==
    /\ pc = "loop"
    /\ Len(stack) = 3
    /\ HasNextImport
    /\ IsVisiting(tree, NextImport)
    /\ findIndex(path, NextImport) = 0

\* the traversal steps are taken as long as one is possible
SpecFair == Spec /\ WF_vars(Next)

\* C28: the traversal terminates; a file is pushed only when it is not yet
\* in the tree, so it is pushed and its imports are fetched at most once;
\* when the function has returned, stack and path are empty and every node
\* of the tree is Visited.
C28_TerminatesEachFileOnce ==
    /\ [][Len(stack') > Len(stack) =>
             /\ stack'[Len(stack')].file \notin DOMAIN tree
             /\ stack'[Len(stack')].file \in DOMAIN tree']_vars
    /\ [](pc \in {"done", "enhanced"} =>
             /\ stack = <<>>
             /\ path = <<>>
             /\ \A f \in DOMAIN tree : tree[f].status = "Visited")
    /\ <>(pc \in {"done", "enhanced"})

\* a traversal over all the files has returned
C28_Witness ==
    /\ pc = "done"
    /\ Cardinality(DOMAIN tree) = NumFiles
    /\ Len(cycles) >= 1

\* C26: for every recorded cycle, the cycle of a file that imports itself
\* included, enhanceCyclesWithLineInfo yields at least one import-info
\* entry when the import lines can be found.
C26_EveryCycleHasAnEntry ==
    (pc = "enhanced" /\ unlocatable = {}) =>
        \A i \in 1 .. Len(enhanced) : Len(enhanced[i].importInfo) >= 1

(***************************************************************************)
(* Properties of the resolvers' caches.                                    *)
(***************************************************************************)
\* what the resolver k would give for the call in progress with an empty cache
FreshAnswer(k) ==
    Resolver(ConfigAt(k), k[1], EmptyCache, call.idOrPath, call.importerPath, fileSystem)

\* C25: whatever was resolved before, a resolver gives for a specifier and
\* an importing file what it would give with an empty cache, and every
\* cached path is the path of a file that was found.
C25_CacheNeverChangesResult ==
    /\ rpc = "walk" =>
          \A k \in ChainKeys :
              /\ Answer(k).path = FreshAnswer(k).path
              /\ Answer(k).matched = FreshAnswer(k).matched
    /\ \A k \in DOMAIN resolutionCache : \A id \in AllIds :
          resolutionCache[k][id] # <<>> => resolutionCache[k][id] \in fileSystem

(***************************************************************************)
(* Properties of the alias rewriting.                                      *)
(***************************************************************************)
\* the part of the specifier that the wildcard at the end of the pattern matched
WildcardPart(pattern, id) == SubSeq(id, Len(pattern), Len(id))

\* the target with the wildcard at its end replaced
Substituted(target, part) == Front(target) \o part

MappingsOf(k) == resolvePathMappings(ConfigAt(k).paths, BaseOf(k[1]))

\* C23: for an alias whose pattern and target both end in a wildcard, the
\* candidate passed to the default resolver for a specifier matching the
\* pattern is the target with its wildcard replaced by the part of the
\* specifier that the pattern's wildcard matched.
C23_WildcardSuffixSubstituted ==
    rpc = "walk" =>
        \A k \in ChainKeys : \A i \in 1 .. Len(MappingsOf(k)) :
            \A j \in 1 .. Len(MappingsOf(k)[i].paths) :
                (/\ Last(MappingsOf(k)[i].pattern) = "*"
                 /\ Last(MappingsOf(k)[i].paths[j]) = "*"
                 /\ globMatch(MappingsOf(k)[i].pattern, call.idOrPath.id))
                => mappedId(MappingsOf(k)[i], MappingsOf(k)[i].paths[j], call.idOrPath.id)
                       = Substituted(MappingsOf(k)[i].paths[j],
                                     WildcardPart(MappingsOf(k)[i].pattern, call.idOrPath.id))

(***************************************************************************)
(* Properties of the nodes and edges that getImports gives the tree.       *)
(***************************************************************************)
\* C21: the tree holds one node per absolute file: two nodes are never the
\* same file, whether it was reached by different spellings or by a
\* specifier carrying a query suffix.
C21_OneNodePerFile ==
    \A f, g \in DOMAIN tree : stripQuery(f) = stripQuery(g) => f = g

\* a file that getImports does not read
Excluded(file) == includesNodeModules(file) \/ ~SUPPORTED_EXTENSION_REGEX(stripQuery(file))

\* C22: a file with an unsupported extension or inside node_modules has no
\* outgoing edges and is the target of no edge, and no edge has an
\* unresolved target.
C22_NoEdgeFromOrToExcluded ==
    \A f \in DOMAIN tree :
        /\ Excluded(f) => tree[f].imports = <<>>
        /\ \A i \in 1 .. Len(tree[f].imports) :
               tree[f].imports[i] # <<>> /\ ~Excluded(tree[f].imports[i])

\* C22 as the code has it: a file with an unsupported extension or inside
\* node_modules has no outgoing edges, and no edge has an unresolved target
\* or a target inside node_modules; a file with an unsupported extension
\* may be the target of an edge.
C22_NoEdgeFromExcluded ==
    \A f \in DOMAIN tree :
        /\ Excluded(f) => tree[f].imports = <<>>
        /\ \A i \in 1 .. Len(tree[f].imports) :
               tree[f].imports[i] # <<>> /\ ~includesNodeModules(tree[f].imports[i])

\* a.ts imports x/y, found in node_modules and dropped, and d.css, which is
\* a node without imports
C22_Witness ==
    /\ pc = "done"
    /\ sources[FileA].readable
    /\ sources[FileA].scannable
    /\ sources[FileA].specifiers = <<IdXY, FileD>>
    /\ links = <<>>
    /\ LinkXY \in fileSystem
    /\ configFiles # <<>>
    /\ tree[FileA].imports = <<FileD>>
    /\ FileD \in DOMAIN tree
    /\ tree[FileD].imports = <<>>

(***************************************************************************)
(* findWorkspaceRoot, resolver.ts lines 144-192, called again and again in *)
(* one process: workspaceRootCache lives as long as the process.  A start  *)
(* path is a directory or a file in it.                                    *)
(***************************************************************************)
MaxRootCalls == 2

\* lines 144-146: fs.existsSync(join(root, 'package.json'))
hasPackageJSON(p) == IF p \in DOMAIN manifests THEN manifests[p] # "none" ELSE FALSE

\* lines 148-155
RECURSIVE findPackageRoot(_, _)
findPackageRoot(p, root) ==
    IF hasPackageJSON(p) THEN p
    ELSE IF dirname(p) = p THEN root
    ELSE findPackageRoot(dirname(p), root)

\* lines 161-168: content.workspaces != null, false when the file cannot be read
hasWorkspacePackageJSON(p) ==
    IF p \in DOMAIN manifests THEN manifests[p] = "workspaces" ELSE FALSE

\* lines 189-191: workspaceRootCache[path] = result; return result
remembered(p, found) == [result |-> found.result, cache |-> (p :> found.result) @@ found.cache]

\* lines 171-192: the root returned and workspaceRootCache afterwards
RECURSIVE findWorkspaceRoot(_, _, _)
findWorkspaceRoot(cache, p, root) ==
    IF p \in DOMAIN cache THEN [result |-> cache[p], cache |-> cache]
    ELSE IF hasWorkspacePackageJSON(p) THEN [result |-> p, cache |-> (p :> p) @@ cache]
    ELSE IF dirname(p) = p THEN [result |-> root, cache |-> (p :> root) @@ cache]
    ELSE remembered(p, findWorkspaceRoot(cache, dirname(p), root))

StartPaths == Dirs \cup {FileA, FileB}

InitRoot ==
    /\ InitTraversal
    /\ NoResolution
    /\ NoLine
    /\ NoProcess
    /\ manifests \in [Dirs -> {"none", "package", "workspaces"}]
    /\ workspaceRootCache = <<>>
    /\ rootCalls = <<>>

\* findWorkspaceRoot(p), root defaulting to findPackageRoot(p) (line 173)
CallFindWorkspaceRoot ==
    /\ Len(rootCalls) < MaxRootCalls
    /\ \E p \in StartPaths :
         /\ workspaceRootCache' =
                findWorkspaceRoot(workspaceRootCache, p, findPackageRoot(p, p)).cache
         /\ rootCalls' =
                Append(rootCalls,
                       [start |-> p,
                        result |-> findWorkspaceRoot(workspaceRootCache, p,
                                                     findPackageRoot(p, p)).result])
    /\ UNCHANGED <<tvars, rvars, hvars, pvars, manifests, console>>

NextRoot == CallFindWorkspaceRoot

SpecRoot == InitRoot /\ [][NextRoot]_vars

\* the path and the directories above it
RECURSIVE AncestorsOf(_)
AncestorsOf(p) == IF dirname(p) = p THEN {p} ELSE {p} \cup AncestorsOf(dirname(p))

\* the nearest of the directories ds
Nearest(ds) == CHOOSE d \in ds : \A e \in ds : Len(e) <= Len(d)

WorkspaceAncestors(p) == {d \in AncestorsOf(p) : hasWorkspacePackageJSON(d)}
PackageAncestors(p) == {d \in AncestorsOf(p) : hasPackageJSON(d)}

\* C24: whatever calls were made before, findWorkspaceRoot(path) returns the
\* nearest ancestor of path (path included) whose manifest declares
\* workspaces, or, when there is none, the nearest ancestor of path that
\* has a manifest.
C24_NearestWorkspaceOrPackageRoot ==
    \A i \in 1 .. Len(rootCalls) :
        IF WorkspaceAncestors(rootCalls[i].start) # {}
        THEN rootCalls[i].result = Nearest(WorkspaceAncestors(rootCalls[i].start))
        ELSE PackageAncestors(rootCalls[i].start) # {}
             => rootCalls[i].result = Nearest(PackageAncestors(rootCalls[i].start))
====
